---- MODULE Spec2Model ----
(***************************************************************************)
(* fdt::vector<T, Allocator> (src/src/include/fdt/random/vector.h) as a    *)
(* state machine over named vector objects and an allocator heap.          *)
(*                                                                         *)
(* size_type is modelled as an unsigned integer of SizeBits bits, so that  *)
(* the wrap-around of alloc_size is reachable; the allocator serves at     *)
(* most `limit` slots per request, always less than half the size_type     *)
(* range, as on a real machine.                                            *)
(***************************************************************************)
EXTENDS Integers, Sequences, FiniteSets, TLC

\* ---------------------------------------------------------------- bounds
SizeBits == 5          \* width of size_type in the model
MaxVal == 1            \* element values are 0..MaxVal (0 is T())
NumBlocks == 3         \* distinct addresses the allocator can hand out
MaxAlloc == 2          \* largest request the allocator can serve (Spec)
MaxAllocPush == 8      \* largest request the allocator can serve (SpecPush)
MaxLen == 2            \* longest initializer list
MaxIterLen == 4        \* longest sequence traversed (SpecIter)

SizeMod == 2 ^ SizeBits
SIZE_MAX == SizeMod - 1
Vals == 0 .. MaxVal
Blocks == 1 .. NumBlocks
nullptr == 0
Vecs == {"a", "b"}
AllVecs == Vecs \cup {"copy", "sum"}
    \* "copy" is the local of operator=, "sum" the local of operator+ and -

VARIABLES
    vec,      \* object name -> [live, data, size, capacity]
    heap,     \* block -> [st, n, mem]; mem[i+1] is slot i: [val, live]
    limit,    \* largest n for which allocate(n) can succeed
    allocator,\* the Allocator and element types: whether allocate(0)
              \* returns null, whether the allocator's instances have
              \* identities of their own, and what can throw: "any" (allocate
              \* and the element copies), "copy" (the element copies only)
              \* or "none"
    alloc,    \* object name -> identity of its member alloc_
    ub,       \* an operation indexed outside its block: behaviour undefined
    op,       \* the observed call that has just ended, until its caller
              \* takes the outcome: name, operands, arguments, exception,
              \* counters, result
    watch,    \* the names of the calls that are observed
    it,       \* the reverse iterator of the traversal in progress
    visited   \* indexes the reverse traversal has dereferenced so far

vars == <<vec, heap, limit, allocator, alloc, ub, op, watch, it, visited>>

\* ------------------------------------------------------------ data model
\* vector.h:426-428: the members data_, size_, capacity_ of one object.
DeadVec == [live |-> FALSE, data |-> nullptr, size |-> 0, capacity |-> 0]

\* The identity of every instance of a stateless allocator, and the alloc_
\* of an object that is not alive.  A block that is not allocated; `by` is
\* the identity of the allocator a block came from.
Stateless == "std"
NoAllocator == "none"
FreeBlock == [st |-> "free", n |-> 0, by |-> NoAllocator, mem |-> << >>]

\* No call has an outcome pending.
NoOp ==
    [name |-> "none", t |-> "a", o |-> "a", exc |-> "none",
     arg |-> << >>, nalloc |-> 0, nfree |-> 0, ncons |-> 0, lost |-> 0,
     res |-> "", out |-> << >>]

\* The state an operation works on: the objects and their allocators, the
\* heap, the exception in flight, and what the operation has done so far:
\* blocks allocated and released, elements constructed, and elements whose
\* block was released while they were still constructed.
Start(v, al, h, lim, pol) ==
    [vec |-> v, alloc |-> al, heap |-> h, limit |-> lim, stateful |-> pol.stateful,
     exc |-> "none", ub |-> FALSE, ret |-> nullptr,
     nalloc |-> 0, nfree |-> 0, ncons |-> 0, lost |-> 0]

\* What the environment decides during one operation that requests n
\* slots (NoAlloc: none), overwrites the first `keep` of them before anything
\* can read them, and copies the elements with the indexes in `copies`:
\* the bytes found in the fresh memory, whether allocate(0) returns null
\* (a property of the allocator), and what throws: -2 the allocator,
\* k >= 0 the copy of element k, -1 nothing.  An allocator that does not
\* throw is asked for nothing it cannot serve: there is no outcome for such
\* a request.
NoAlloc == -1
Served(n, lim) ==
    \/ allocator.throws = "any"
    \/ /\ n <= lim
       /\ \/ n = 0 /\ allocator.zeronull
          \/ \E b \in Blocks : heap[b].st = "free"
CopyFaults(copies) == IF allocator.throws = "none" THEN {} ELSE copies
Oracles(n, keep, copies, lim) ==
    IF n = NoAlloc
    THEN [raw : {<< >>}, zeronull : {FALSE}, fail : {-1} \cup CopyFaults(copies)]
    ELSE IF ~Served(n, lim)
    THEN {}
    ELSE IF n > lim
    THEN [raw : {<< >>}, zeronull : {FALSE}, fail : {-2}]
    ELSE [raw : {r \in [1 .. n -> Vals] : \A i \in 1 .. n : i <= keep => r[i] = 0},
          zeronull : IF n = 0 THEN {allocator.zeronull} ELSE {FALSE},
          fail : (IF allocator.throws = "any" THEN {-2} ELSE {})
                    \cup {-1} \cup CopyFaults(copies)]

\* The address a successful allocate returns.  Addresses are
\* interchangeable, so the lowest free one stands for any of them.
FreeBlocks(h) == {b \in Blocks : h[b].st = "free"}
LowestFree(h) == CHOOSE b \in FreeBlocks(h) : \A c \in FreeBlocks(h) : b <= c

\* ------------------------------------------------------------- allocator
\* std::allocator_traits<Allocator>::allocate(alloc_, n), as called at
\* vector.h:38,51,86,313,354.  Throws when the request cannot be served;
\* the result for n = 0 is unspecified: null or a unique non-null address.
allocate(S, al, n, orc) ==
    IF orc.fail = -2 \/ n > S.limit
    THEN [S EXCEPT !.exc = "bad_alloc"]
    ELSE IF n = 0 /\ orc.zeronull
    THEN [S EXCEPT !.ret = nullptr, !.nalloc = @ + 1]
    ELSE IF FreeBlocks(S.heap) = {}
    THEN [S EXCEPT !.exc = "bad_alloc"]
    ELSE [S EXCEPT
            !.heap[LowestFree(S.heap)] =
                [st |-> "used", n |-> n, by |-> al,
                 mem |-> [i \in 1 .. n |-> [val |-> orc.raw[i], live |-> FALSE]]],
            !.ret = LowestFree(S.heap),
            !.nalloc = @ + 1]

\* The constructed elements of block p.
LiveSlots(h, p) == {i \in 1 .. h[p].n : h[p].mem[i].live}

\* allocator_traits::deallocate(alloc_, p, n), as called at
\* vector.h:138,319,357.  Releasing null is a no-op; p must be a block
\* that allocate(n) of an equal allocator returned and that was not
\* released since.  The elements still constructed in the block are lost.
deallocate(S, al, p, n) ==
    IF p = nullptr THEN S
    ELSE IF S.heap[p].st # "used" \/ S.heap[p].n # n \/ S.heap[p].by # al
    THEN [S EXCEPT !.ub = TRUE]
    ELSE [S EXCEPT !.heap[p] = FreeBlock,
                   !.nfree = @ + 1,
                   !.lost = @ + Cardinality(LiveSlots(S.heap, p))]

\* allocator_traits::construct(alloc_, p + i, v): vector.h:42,56,91,316,370.
construct(S, p, i, v) ==
    IF p = nullptr \/ i < 0 \/ i >= S.heap[p].n
    THEN [S EXCEPT !.ub = TRUE]
    ELSE [S EXCEPT !.heap[p].mem[i + 1] = [val |-> v, live |-> TRUE],
                   !.ncons = @ + 1]

\* *(p + i) read as an rvalue: vector.h:57,201,216,316.
InBounds(S, p, i) == p # nullptr /\ i >= 0 /\ i < S.heap[p].n
load(S, p, i) == S.heap[p].mem[i + 1].val

\* ---------------------------------------------------------- constructors
\* A thrown exception or undefined behaviour ends the operation.
Stopped(S) == S.exc # "none" \/ S.ub

LiveVec(p, s, c) == [live |-> TRUE, data |-> p, size |-> s, capacity |-> c]

\* vector.h:429: the member alloc_ of a new object is default-constructed,
\* whichever constructor runs: no constructor names it in its initializers.
own(S, t) == [S EXCEPT !.alloc[t] = IF S.stateful THEN t ELSE Stateless]

\* vector.h:31: vector().
ctor_default(S, t) == [own(S, t) EXCEPT !.vec[t] = LiveVec(nullptr, 0, 0)]

\* vector.h:41-42: for (i = 0; i < size_; ++i) construct(alloc_, data_ + i).
RECURSIVE default_elems(_, _, _, _)
default_elems(S, p, i, n) ==
    IF i >= n \/ Stopped(S) THEN S
    ELSE default_elems(construct(S, p, i, 0), p, i + 1, n)

\* A sized constructor that only reserves the n slots.
ctor_sized_empty(S, t, n, orc) ==
    LET A == allocate(own(S, t), own(S, t).alloc[t], n, orc)
    IN  IF Stopped(A) THEN A
        ELSE [A EXCEPT !.vec[t] = LiveVec(A.ret, 0, n)]

\* vector.h:37-43: vector(std::size_t n).
ctor_sized(S, t, n, orc) ==
    LET A == allocate(own(S, t), own(S, t).alloc[t], n, orc)
        C == default_elems(A, A.ret, 0, n)
    IN  IF Stopped(A) THEN A
        ELSE IF Stopped(C) THEN C
        ELSE [C EXCEPT !.vec[t] = LiveVec(A.ret, n, n)]

\* vector.h:55-58 and 315-316: for (i = 0; i < n; ++i)
\* construct(alloc_, dst + i, *(src + i)); element copy orc.fail throws.
RECURSIVE copy_elems(_, _, _, _, _, _)
copy_elems(S, dst, src, i, n, orc) ==
    IF i >= n \/ Stopped(S) THEN S
    ELSE IF ~InBounds(S, src, i) THEN [S EXCEPT !.ub = TRUE]
    ELSE IF orc.fail = i THEN [S EXCEPT !.exc = "copy_throw"]
    ELSE copy_elems(construct(S, dst, i, load(S, src, i)), dst, src, i + 1, n, orc)

\* A copy constructor that allocates for the elements only.
ctor_copy_shrunk(S, t, o, orc) ==
    LET A == allocate(own(S, t), own(S, t).alloc[t], S.vec[o].size, orc)
        C == copy_elems(A, A.ret, S.vec[o].data, 0, S.vec[o].size, orc)
    IN  IF Stopped(A) THEN A
        ELSE IF Stopped(C) THEN C
        ELSE [C EXCEPT !.vec[t] = LiveVec(A.ret, S.vec[o].size, S.vec[o].size)]

\* vector.h:50-59: vector(const vector& other).
ctor_copy(S, t, o, orc) ==
    LET A == allocate(own(S, t), own(S, t).alloc[t], S.vec[o].capacity, orc)
        C == copy_elems(A, A.ret, S.vec[o].data, 0, S.vec[o].size, orc)
    IN  IF Stopped(A) THEN A
        ELSE IF Stopped(C) THEN C
        ELSE [C EXCEPT !.vec[t] = LiveVec(A.ret, S.vec[o].size, S.vec[o].capacity)]

\* A move constructor that forgets to reset its source.
ctor_move_keep_source(S, t, o) ==
    [own(S, t) EXCEPT !.vec[t] = LiveVec(S.vec[o].data, S.vec[o].size, S.vec[o].capacity)]

\* vector.h:68-75: vector(vector&& other).
ctor_move(S, t, o) ==
    [own(S, t) EXCEPT !.vec[t] = LiveVec(S.vec[o].data, S.vec[o].size, S.vec[o].capacity),
              !.vec[o] = LiveVec(nullptr, 0, 0)]

\* vector.h:90-92: for (i = 0; i < init.size(); ++i)
\* construct(alloc_, data_ + i, *(init.begin() + i)).
RECURSIVE ilist_elems(_, _, _, _, _)
ilist_elems(S, p, init, i, orc) ==
    IF i >= Len(init) \/ Stopped(S) THEN S
    ELSE IF orc.fail = i THEN [S EXCEPT !.exc = "copy_throw"]
    ELSE ilist_elems(construct(S, p, i, init[i + 1]), p, init, i + 1, orc)

\* vector.h:85-93: vector(std::initializer_list<T> init).
ctor_ilist(S, t, init, orc) ==
    LET A == allocate(own(S, t), own(S, t).alloc[t], Len(init), orc)
        C == ilist_elems(A, A.ret, init, 0, orc)
    IN  IF Stopped(A) THEN A
        ELSE IF Stopped(C) THEN C
        ELSE [C EXCEPT !.vec[t] = LiveVec(A.ret, Len(init), Len(init))]

\* vector.h:136-139: ~vector().
dtor(S, t) ==
    [deallocate(S, S.alloc[t], S.vec[t].data, S.vec[t].capacity) EXCEPT
        !.vec[t] = DeadVec, !.alloc[t] = NoAllocator]

\* vector.h:416-422: swap(vector& other).
swap(S, t, o) ==
    [S EXCEPT !.vec[t] = S.vec[o], !.vec[o] = S.vec[t],
              !.alloc[t] = S.alloc[o], !.alloc[o] = S.alloc[t]]

\* ------------------------------------------------------------ assignment
\* A copy assignment that releases the target before it builds the copy.
assign_copy_destroy_first(S, t, o, orc) ==
    IF o = t THEN S
    ELSE LET D == [deallocate(S, S.alloc[t], S.vec[t].data, S.vec[t].capacity) EXCEPT
                      !.vec[t] = LiveVec(nullptr, 0, 0)]
             C == ctor_copy(D, "copy", o, orc)
         IN  IF Stopped(C) THEN C
             ELSE dtor(swap(C, "copy", t), "copy")

\* vector.h:103-110: operator=(const vector& other).
assign_copy(S, t, o, orc) ==
    IF o = t THEN S
    ELSE LET C == ctor_copy(S, "copy", o, orc)
         IN  IF Stopped(C) THEN C
             ELSE dtor(swap(C, "copy", t), "copy")

\* A move assignment that only swaps with its source.
assign_move_swap_only(S, t, o) ==
    IF o = t THEN S ELSE swap(S, t, o)

\* vector.h:120-127: operator=(vector&& other).
assign_move(S, t, o) ==
    IF o = t THEN S
    ELSE dtor(swap(ctor_move(S, "copy", o), "copy", t), "copy")

\* vector.h:129-134: operator=(std::initializer_list<T> init).
assign_ilist(S, t, init, orc) ==
    LET C == ctor_ilist(S, "copy", init, orc)
    IN  IF Stopped(C) THEN C
        ELSE dtor(swap(C, "copy", t), "copy")

\* -------------------------------------------------------------- capacity
\* x >> k and x | y on size_type.
Shr(x, k) == IF k >= SizeBits THEN 0 ELSE x \div (2 ^ k)

RECURSIVE BitOr(_, _)
BitOr(x, y) ==
    IF x = 0 THEN y
    ELSE IF y = 0 THEN x
    ELSE (IF x % 2 = 1 \/ y % 2 = 1 THEN 1 ELSE 0) + 2 * BitOr(x \div 2, y \div 2)

\* A growth policy that does not round its request.
alloc_size_exact(s) == s % SizeMod

\* vector.h:431-442: alloc_size(s), the bit-smearing branch, in size_type
\* arithmetic: --s; s |= s >> 1; ... s |= s >> 32; ++s.
alloc_size(s) ==
    LET s0 == (s + SizeMod - 1) % SizeMod
        s1 == BitOr(s0, Shr(s0, 1))
        s2 == BitOr(s1, Shr(s1, 2))
        s3 == BitOr(s2, Shr(s2, 4))
        s4 == BitOr(s3, Shr(s3, 8))
        s5 == BitOr(s4, Shr(s4, 16))
        s6 == BitOr(s5, Shr(s5, 32))
    IN  (s6 + 1) % SizeMod

\* A reserve that does not release the old block.
reserve_leaking(S, t, n, orc) ==
    LET v == S.vec[t]
        A == allocate(S, S.alloc[t], n, orc)
        C == copy_elems(A, A.ret, v.data, 0, v.size, orc)
    IN  IF n <= v.capacity THEN S
        ELSE IF Stopped(A) THEN A
        ELSE IF Stopped(C) THEN C
        ELSE [C EXCEPT !.vec[t].capacity = n, !.vec[t].data = A.ret]

\* vector.h:309-322: reserve(size_t n).
reserve(S, t, n, orc) ==
    LET v == S.vec[t]
        A == allocate(S, S.alloc[t], n, orc)
        C == copy_elems(A, A.ret, v.data, 0, v.size, orc)
    IN  IF n <= v.capacity THEN S
        ELSE IF Stopped(A) THEN A
        ELSE IF Stopped(C) THEN C
        ELSE [deallocate(C, S.alloc[t], v.data, v.capacity) EXCEPT
                 !.vec[t].capacity = n, !.vec[t].data = A.ret]

\* A resize that gives up the unused capacity when it lowers the size.
resize_trimming(S, t, n, orc) ==
    LET R == reserve(S, t, alloc_size(n), orc)
    IN  IF n <= S.vec[t].size
        THEN [S EXCEPT !.vec[t].size = n, !.vec[t].capacity = n]
        ELSE IF Stopped(R) THEN R
        ELSE [R EXCEPT !.vec[t].size = n]

\* vector.h:331-340: resize(size_t n).
resize(S, t, n, orc) ==
    LET R == reserve(S, t, alloc_size(n), orc)
    IN  IF n <= S.vec[t].size THEN [S EXCEPT !.vec[t].size = n]
        ELSE IF Stopped(R) THEN R
        ELSE [R EXCEPT !.vec[t].size = n]

\* vector.h:355: std::copy(data_, data_ + size_, a): element-wise
\* assignment into the new block, which constructs nothing.
RECURSIVE std_copy(_, _, _, _, _, _)
std_copy(S, dst, src, i, n, orc) ==
    IF i >= n \/ Stopped(S) THEN S
    ELSE IF ~InBounds(S, src, i) \/ ~InBounds(S, dst, i) THEN [S EXCEPT !.ub = TRUE]
    ELSE IF orc.fail = i THEN [S EXCEPT !.exc = "copy_throw"]
    ELSE std_copy([S EXCEPT !.heap[dst].mem[i + 1].val = load(S, src, i)],
                  dst, src, i + 1, n, orc)

\* A shrink_to_fit that lowers the capacity and keeps the block.
shrink_to_fit_in_place(S, t, orc) ==
    [S EXCEPT !.vec[t].capacity = S.vec[t].size]

\* vector.h:349-360: shrink_to_fit().
shrink_to_fit(S, t, orc) ==
    LET v == S.vec[t]
        A == allocate(S, S.alloc[t], v.size, orc)
        C == std_copy(A, A.ret, v.data, 0, v.size, orc)
    IN  IF v.size = v.capacity THEN S
        ELSE IF Stopped(A) THEN A
        ELSE IF Stopped(C) THEN C
        ELSE [deallocate(C, S.alloc[t], v.data, v.capacity) EXCEPT
                 !.vec[t].capacity = v.size, !.vec[t].data = A.ret]

\* -------------------------------------------------------------- mutation
\* An append that constructs the element over the last one and does not
\* count it.
append_over_last(S, t, value, orc) ==
    LET n == S.vec[t].size
    IN  IF n >= 1 /\ orc.fail = n - 1 THEN [S EXCEPT !.exc = "copy_throw"]
        ELSE construct(S, S.vec[t].data, n - 1, value)

\* vector.h:369-370 and 373-374: size_++; construct(alloc_, data_ + size_ - 1,
\* value); the copy of value throws when orc.fail names the new index.
append(S, t, value, orc) ==
    LET n == (S.vec[t].size + 1) % SizeMod
        G == [S EXCEPT !.vec[t].size = n]
    IN  IF n >= 1 /\ orc.fail = n - 1 THEN [G EXCEPT !.exc = "copy_throw"]
        ELSE construct(G, G.vec[t].data, n - 1, value)

\* vector.h:366-376: push_back(const T& value).
push_back(S, t, value, orc) ==
    LET v == S.vec[t]
        R == reserve(S, t, alloc_size((v.capacity + 1) % SizeMod), orc)
    IN  IF (v.size + 1) % SizeMod < v.capacity THEN append(S, t, value, orc)
        ELSE IF Stopped(R) THEN R
        ELSE append(R, t, value, orc)

\* vector.h:391 and 397: return *(data_ + size_ - 1); ret is the offset
\* from data_ of the element the returned reference names.
back_ref(S, t) ==
    IF Stopped(S) THEN S
    ELSE [S EXCEPT !.ret = (S.vec[t].size + SizeMod - 1) % SizeMod]

\* vector.h:384-399: emplace_back(Args&&... args), with T built from value.
emplace_back(S, t, value, orc) ==
    LET v == S.vec[t]
        R == reserve(S, t, alloc_size((v.capacity + 1) % SizeMod), orc)
    IN  IF (v.size + 1) % SizeMod < v.capacity
        THEN back_ref(append(S, t, value, orc), t)
        ELSE IF Stopped(R) THEN R
        ELSE back_ref(append(R, t, value, orc), t)

\* vector.h:405-409: pop_back().
pop_back(S, t) ==
    IF S.vec[t].size = 0 THEN S
    ELSE [S EXCEPT !.vec[t].size = @ - 1]

\* ---------------------------------------------------------------- access
\* An at() without the bounds test.
at_unchecked(S, t, i) ==
    IF ~InBounds(S, S.vec[t].data, i) THEN [S EXCEPT !.ub = TRUE]
    ELSE [S EXCEPT !.ret = i]

\* vector.h:198-207: at(size_t i); ret is the offset from data_ of the
\* element the returned reference names.
at(S, t, i) ==
    IF i >= S.vec[t].size THEN [S EXCEPT !.exc = "array_out_of_range"]
    ELSE IF ~InBounds(S, S.vec[t].data, i) THEN [S EXCEPT !.ub = TRUE]
    ELSE [S EXCEPT !.ret = i]

\* ------------------------------------------------------------ comparison
\* vector.h:478-480: for (i = 0; i < l.size(); ++i) if (l[i] != r[i])
\* return false; return true.  "ub" when an index leaves its block.
RECURSIVE eq_loop(_, _, _, _, _)
eq_loop(h, lv, rv, i, n) ==
    IF i >= n THEN "true"
    ELSE IF i >= h[lv.data].n \/ i >= h[rv.data].n THEN "ub"
    ELSE IF h[lv.data].mem[i + 1].val # h[rv.data].mem[i + 1].val THEN "false"
    ELSE eq_loop(h, lv, rv, i + 1, n)

\* An equality without the null-storage test.
operator_eq_no_null_check(h, lv, rv) ==
    IF lv.size # rv.size THEN "false"
    ELSE eq_loop(h, lv, rv, 0, lv.size)

\* vector.h:473-481: operator==(const vector& l, const vector& r).
operator_eq(h, lv, rv) ==
    IF lv.data = nullptr \/ rv.data = nullptr THEN "false"
    ELSE IF lv.size # rv.size THEN "false"
    ELSE eq_loop(h, lv, rv, 0, lv.size)

\* vector.h:483-487: operator!=(const vector& l, const vector& r).
operator_ne(h, lv, rv) ==
    LET e == operator_eq(h, lv, rv)
    IN  IF e = "ub" THEN "ub" ELSE IF e = "true" THEN "false" ELSE "true"

\* ------------------------------------------------------------ arithmetic
\* vector.h:503-505 and 522-524: for (i = 0; i < l.size(); ++i)
\* sum.emplace_back(l[i] + r[i]), or l[i] - r[i] when sign is -1; orcs[i + 1]
\* is what the environment decides during the i-th emplace_back.
RECURSIVE elementwise(_, _, _, _, _, _)
elementwise(S, l, r, i, sign, orcs) ==
    IF i >= S.vec[l].size \/ Stopped(S) THEN S
    ELSE IF ~InBounds(S, S.vec[l].data, i) \/ ~InBounds(S, S.vec[r].data, i)
    THEN [S EXCEPT !.ub = TRUE]
    ELSE elementwise(
             emplace_back(S, "sum",
                          load(S, S.vec[l].data, i) + sign * load(S, S.vec[r].data, i),
                          orcs[i + 1]),
             l, r, i + 1, sign, orcs)

\* A sum that does not compare the sizes of its operands.
operator_plus_unchecked(S, l, r, orcs) ==
    elementwise(ctor_default(S, "sum"), l, r, 0, 1, orcs)

\* vector.h:498-507: operator+(const vector& l, const vector& r); the
\* result is the local sum.
operator_plus(S, l, r, orcs) ==
    IF S.vec[l].size # S.vec[r].size THEN [S EXCEPT !.exc = "vector_size_mismatch"]
    ELSE elementwise(ctor_default(S, "sum"), l, r, 0, 1, orcs)

\* vector.h:517-525: operator-(const vector& l, const vector& r).
operator_minus(S, l, r, orcs) ==
    IF S.vec[l].size # S.vec[r].size THEN [S EXCEPT !.exc = "vector_size_mismatch"]
    ELSE elementwise(ctor_default(S, "sum"), l, r, 0, -1, orcs)

\* ---------------------------------------------------------------- actions
\* Arguments of Sized, reserve and resize: the small sizes; and with them
\* two sizes in the upper half of the size_type range.
SizeArgs == 0 .. (MaxAlloc + 1)
WideArgs == SizeArgs \cup {SizeMod \div 2 + 1, SIZE_MAX}

ILists == UNION {[1 .. k -> Vals] : k \in 0 .. MaxLen}

Live(t) == vec[t].live

\* A block no object points to can never be read or released again: its
\* length and contents are forgotten, its address stays allocated.
Forget(h, v) ==
    [b \in Blocks |->
        IF h[b].st = "used" /\ \A t \in AllVecs : v[t].data # b
        THEN [st |-> "leaked", n |-> 0, by |-> NoAllocator, mem |-> << >>]
        ELSE h[b]]

\* The call `name` on t (and o) with the arguments arg starts when the
\* caller has taken the outcome of the one before, and ends in S with the
\* result res, or with the values out.
Call(S, name, t, o, arg, res, out) ==
    /\ op = NoOp
    /\ IF S.ub
       THEN /\ ub' = TRUE
            /\ op' = [NoOp EXCEPT !.name = name, !.t = t, !.o = o, !.exc = "ub"]
            /\ UNCHANGED <<vec, alloc, heap>>
       ELSE /\ ub' = FALSE
            /\ vec' = S.vec
            /\ alloc' = [x \in AllVecs |->
                            IF S.vec[x].live THEN S.alloc[x] ELSE NoAllocator]
            /\ heap' = Forget(S.heap, S.vec)
            /\ op' = IF name \in watch
                     THEN [name |-> name, t |-> t, o |-> o, arg |-> arg,
                           exc |-> S.exc, nalloc |-> S.nalloc, nfree |-> S.nfree,
                           ncons |-> S.ncons, lost |-> S.lost,
                           res |-> res, out |-> out]
                     ELSE NoOp
    /\ UNCHANGED <<limit, allocator, watch, it, visited>>

\* The same for a call without arguments that returns no value or a truth
\* value.
Commit(S, name, t, o, res) == Call(S, name, t, o, << >>, res, << >>)

\* The caller takes the outcome (return value or exception) of the call.
Return ==
    /\ ~ub /\ op # NoOp
    /\ op' = NoOp
    /\ UNCHANGED <<vec, heap, limit, allocator, alloc, ub, watch, it, visited>>

Now == Start(vec, alloc, heap, limit, allocator)


\* The requests the capacity operations make of the allocator.
ReserveReq(t, n) == IF n <= vec[t].capacity THEN NoAlloc ELSE n
ResizeReq(t, n) == IF n <= vec[t].size THEN NoAlloc ELSE ReserveReq(t, alloc_size(n))
ShrinkReq(t) == IF vec[t].size = vec[t].capacity THEN NoAlloc ELSE vec[t].size
PushReq(t) ==
    IF (vec[t].size + 1) % SizeMod < vec[t].capacity THEN NoAlloc
    ELSE ReserveReq(t, alloc_size((vec[t].capacity + 1) % SizeMod))
Elems(t) == 0 .. (vec[t].size - 1)
PushCopies(t) == IF PushReq(t) = NoAlloc THEN {vec[t].size} ELSE 0 .. vec[t].size

Default(t) ==
    /\ ~ub /\ ~Live(t)
    /\ Commit(ctor_default(Now, t), "default", t, t, "")

Sized(t, args) ==
    /\ ~ub /\ ~Live(t)
    /\ \E n \in args : \E orc \in Oracles(n, n, {}, limit) :
          Call(ctor_sized(Now, t, n, orc), "sized", t, t, << n >>, "", << >>)

FromSequence(t) ==
    /\ ~ub /\ ~Live(t)
    /\ \E init \in ILists : \E orc \in Oracles(Len(init), Len(init), 0 .. (Len(init) - 1), limit) :
          Call(ctor_ilist(Now, t, init, orc), "ilist", t, t, init, "", << >>)

CopyCtor(t, o) ==
    /\ ~ub /\ ~Live(t) /\ Live(o)
    /\ \E orc \in Oracles(vec[o].capacity, vec[o].size, Elems(o), limit) :
          Commit(ctor_copy(Now, t, o, orc), "copy_ctor", t, o, "")

MoveCtor(t, o) ==
    /\ ~ub /\ ~Live(t) /\ Live(o)
    /\ Commit(ctor_move(Now, t, o), "move_ctor", t, o, "")

CopyAssign(t, o) ==
    /\ ~ub /\ Live(t) /\ Live(o)
    /\ \E orc \in Oracles(IF o = t THEN NoAlloc ELSE vec[o].capacity, vec[o].size,
                          IF o = t THEN {} ELSE Elems(o), limit) :
          Commit(assign_copy(Now, t, o, orc), "copy_assign", t, o, "")

MoveAssign(t, o) ==
    /\ ~ub /\ Live(t) /\ Live(o)
    /\ Commit(assign_move(Now, t, o), "move_assign", t, o, "")

IListAssign(t) ==
    /\ ~ub /\ Live(t)
    /\ \E init \in ILists : \E orc \in Oracles(Len(init), Len(init), 0 .. (Len(init) - 1), limit) :
          Call(assign_ilist(Now, t, init, orc), "ilist_assign", t, t, init, "", << >>)

Destroy(t) ==
    /\ ~ub /\ Live(t)
    /\ Commit(dtor(Now, t), "dtor", t, t, "")

Reserve(t, args) ==
    /\ ~ub /\ Live(t)
    /\ \E n \in args :
          \E orc \in Oracles(ReserveReq(t, n), vec[t].size,
                             IF ReserveReq(t, n) = NoAlloc THEN {} ELSE Elems(t), limit) :
             Call(reserve(Now, t, n, orc), "reserve", t, t, << n >>, "", << >>)

Resize(t, args) ==
    /\ ~ub /\ Live(t)
    /\ \E n \in args :
          \E orc \in Oracles(ResizeReq(t, n), vec[t].size,
                             IF ResizeReq(t, n) = NoAlloc THEN {} ELSE Elems(t), limit) :
             Call(resize(Now, t, n, orc), "resize", t, t, << n >>, "", << >>)

ShrinkToFit(t) ==
    /\ ~ub /\ Live(t)
    /\ \E orc \in Oracles(ShrinkReq(t), vec[t].size,
                          IF ShrinkReq(t) = NoAlloc THEN {} ELSE Elems(t), limit) :
          Commit(shrink_to_fit(Now, t, orc), "shrink_to_fit", t, t, "")

PushBack(t, vals) ==
    /\ ~ub /\ Live(t)
    /\ \E value \in vals : \E orc \in Oracles(PushReq(t), vec[t].size, PushCopies(t), limit) :
          Call(push_back(Now, t, value, orc), "push_back", t, t, << value >>, "", << >>)

EmplaceBack(t, vals) ==
    /\ ~ub /\ Live(t)
    /\ \E value \in vals : \E orc \in Oracles(PushReq(t), vec[t].size, PushCopies(t), limit) :
          LET R == emplace_back(Now, t, value, orc)
          IN  Call(R, "emplace_back", t, t, << value >>, "",
                   IF Stopped(R) THEN << >> ELSE << R.ret >>)

PopBack(t) ==
    /\ ~ub /\ Live(t)
    /\ Commit(pop_back(Now, t), "pop_back", t, t, "")

Swap(t, o) ==
    /\ ~ub /\ Live(t) /\ Live(o)
    /\ Commit(swap(Now, t, o), "swap", t, o, "")

Equal(l, r) ==
    /\ ~ub /\ Live(l) /\ Live(r)
    /\ LET e == operator_eq(heap, vec[l], vec[r])
       IN  Commit([Now EXCEPT !.ub = (e = "ub")], "eq", l, r, e)

NotEqual(l, r) ==
    /\ ~ub /\ Live(l) /\ Live(r)
    /\ LET e == operator_ne(heap, vec[l], vec[r])
       IN  Commit([Now EXCEPT !.ub = (e = "ub")], "ne", l, r, e)

\* i is read through at(): the call, and the read of the returned reference.
At(t, args) ==
    /\ ~ub /\ Live(t)
    /\ \E i \in args :
          LET R == at(Now, t, i)
          IN  Call(R, "at", t, t, << i >>, "",
                   IF Stopped(R) THEN << >> ELSE << load(R, R.vec[t].data, R.ret) >>)

\* What the environment decides during the emplace_backs of one sum or
\* difference of n elements: nothing fails, or the k-th emplace_back fails
\* in the allocator or in the construction of its element.
SumOracles(n) ==
    {[i \in 1 .. n |->
         [raw |-> [j \in 1 .. limit |-> 0], zeronull |-> allocator.zeronull,
          fail |-> IF i # k THEN -1 ELSE IF inalloc THEN -2 ELSE i - 1]] :
     k \in 0 .. n, inalloc \in BOOLEAN}

\* The elements of the array a sum or difference returned.
Result(R) ==
    IF Stopped(R) THEN << >>
    ELSE [i \in 1 .. R.vec["sum"].size |-> load(R, R.vec["sum"].data, i - 1)]

\* The statement  l + r;  the result, or the local sum when an exception
\* unwinds, is destroyed at its end.
Plus(l, r) ==
    /\ ~ub /\ Live(l) /\ Live(r)
    /\ \E orcs \in SumOracles(vec[l].size) :
          LET R == operator_plus(Now, l, r, orcs)
          IN  Call(IF R.ub THEN R ELSE dtor(R, "sum"), "plus", l, r, << >>,
                   IF Stopped(R) THEN "" ELSE "array", Result(R))

\* The statement  l - r;
Minus(l, r) ==
    /\ ~ub /\ Live(l) /\ Live(r)
    /\ \E orcs \in SumOracles(vec[l].size) :
          LET R == operator_minus(Now, l, r, orcs)
          IN  Call(IF R.ub THEN R ELSE dtor(R, "sum"), "minus", l, r, << >>,
                   IF Stopped(R) THEN "" ELSE "array", Result(R))

\* ------------------------------------------------------ reverse iteration
\* vector.h:266: rbegin() wraps data_ + size_ - 1; vector.h:287: rend()
\* wraps data_.  Positions are offsets from data_.
rbegin(v) == v.size - 1
rend(v) == 0

\* reverse_rand_iterator (fdt/iterator.h): *it yields the element one
\* position before the wrapped one, ++it moves the wrapped position one
\* down, it != other compares the wrapped positions.
rev_deref(pos) == pos - 1
rev_inc(pos) == pos - 1
rev_neq(p, q) == p # q

NoIter == [on |-> FALSE, pos |-> 0]

\* auto it = v.rbegin();
RBegin(t) ==
    /\ ~ub /\ Live(t) /\ ~it.on /\ op = NoOp
    /\ it' = [on |-> TRUE, pos |-> rbegin(vec[t])]
    /\ visited' = << >>
    /\ UNCHANGED <<vec, heap, limit, allocator, alloc, ub, op, watch>>

\* One turn of  for (...; it != v.rend(); ++it) use(*it);
RStep(t) ==
    /\ ~ub /\ Live(t) /\ it.on /\ op = NoOp
    /\ rev_neq(it.pos, rend(vec[t]))
    /\ IF InBounds(Now, vec[t].data, rev_deref(it.pos))
       THEN /\ visited' = Append(visited, rev_deref(it.pos))
            /\ it' = [it EXCEPT !.pos = rev_inc(it.pos)]
            /\ ub' = FALSE
       ELSE /\ ub' = TRUE
            /\ UNCHANGED <<it, visited>>
    /\ UNCHANGED <<vec, heap, limit, allocator, alloc, op, watch>>

\* The traversal left its loop.
RDone(t) == it.on /\ ~ub /\ ~rev_neq(it.pos, rend(vec[t]))

\* --------------------------------------------------------- specification
\* The allocators the array is built with: allocate(0) returns null or it
\* does not; instances are interchangeable (st false) or each has an identity.
Allocators(st) == [zeronull : BOOLEAN, stateful : {st}, throws : {"any"}]

\* No object, no block; the allocator serves up to lim slots; the calls
\* named in w are observed.
BootWith(lim, w, st) ==
    /\ vec = [t \in AllVecs |-> DeadVec]
    /\ alloc = [t \in AllVecs |-> NoAllocator]
    /\ allocator \in Allocators(st)
    /\ heap = [b \in Blocks |-> FreeBlock]
    /\ limit = lim
    /\ ub = FALSE
    /\ op = NoOp
    /\ watch = w
    /\ it = NoIter
    /\ visited = << >>

Boot(lim, w) == BootWith(lim, w, FALSE)

Init == Boot(MaxAlloc, {})

Next ==
    \/ \E t \in Vecs : Default(t)
    \/ \E t \in Vecs : Sized(t, SizeArgs)
    \/ \E t \in Vecs : FromSequence(t)
    \/ \E t, o \in Vecs : CopyCtor(t, o)
    \/ \E t, o \in Vecs : MoveCtor(t, o)
    \/ \E t, o \in Vecs : CopyAssign(t, o)
    \/ \E t, o \in Vecs : MoveAssign(t, o)
    \/ \E t \in Vecs : IListAssign(t)
    \/ \E t \in Vecs : Destroy(t)
    \/ \E t \in Vecs : Reserve(t, SizeArgs)
    \/ \E t \in Vecs : Resize(t, SizeArgs)
    \/ \E t \in Vecs : ShrinkToFit(t)
    \/ \E t \in Vecs : PushBack(t, Vals)
    \/ \E t \in Vecs : EmplaceBack(t, Vals)
    \/ \E t \in Vecs : PopBack(t)
    \/ \E t, o \in Vecs : Swap(t, o)
    \/ \E l, r \in Vecs : Equal(l, r)
    \/ \E l, r \in Vecs : NotEqual(l, r)

\* Two objects, every operation, arguments up to MaxAlloc + 1.
Spec == Init /\ [][Next]_vars

NextObs == Next \/ Return

\* The same, the move operations observed.
InitMove == Boot(MaxAlloc, {"move_ctor", "move_assign"})
SpecMove == InitMove /\ [][NextObs]_vars

\* The same, the copy and move assignments observed.
InitAssign == Boot(MaxAlloc, {"copy_assign", "move_assign"})
SpecAssign == InitAssign /\ [][NextObs]_vars

\* The same, the comparisons observed.
InitEq == Boot(MaxAlloc, {"eq", "ne"})
SpecEq == InitEq /\ [][NextObs]_vars

\* The same, the copy construction observed.
InitCopy == Boot(MaxAlloc, {"copy_ctor"})
SpecCopy == InitCopy /\ [][NextObs]_vars

\* Two objects that are built, appended to, shortened and destroyed, and
\* their sums and differences, observed.
InitSum == Boot(MaxAlloc, {"plus", "minus"})
NextSum ==
    \/ \E t \in Vecs : Default(t)
    \/ \E t \in Vecs : Sized(t, SizeArgs)
    \/ \E t \in Vecs : FromSequence(t)
    \/ \E t \in Vecs : Destroy(t)
    \/ \E t \in Vecs : PushBack(t, Vals)
    \/ \E t \in Vecs : PopBack(t)
    \/ Return
    \/ \E l, r \in Vecs : Plus(l, r)
    \/ \E l, r \in Vecs : Minus(l, r)
SpecSum == InitSum /\ [][NextSum]_vars

\* Two objects of an allocator whose instances have identities:
\* construction, copy, move, swap, assignment and destruction.
InitAlloc == BootWith(MaxAlloc, {}, TRUE)
NextAlloc ==
    \/ \E t \in Vecs : Default(t)
    \/ \E t \in Vecs : FromSequence(t)
    \/ \E t, o \in Vecs : CopyCtor(t, o)
    \/ \E t, o \in Vecs : MoveCtor(t, o)
    \/ \E t, o \in Vecs : CopyAssign(t, o)
    \/ \E t, o \in Vecs : MoveAssign(t, o)
    \/ \E t \in Vecs : IListAssign(t)
    \/ \E t, o \in Vecs : Swap(t, o)
    \/ \E t \in Vecs : Destroy(t)
SpecAlloc == InitAlloc /\ [][NextAlloc]_vars

\* One object, every operation on it with arguments up to MaxAlloc + 1.
NextOne ==
    \/ Default("a")
    \/ Sized("a", SizeArgs)
    \/ FromSequence("a")
    \/ Destroy("a")
    \/ At("a", SizeArgs)
    \/ Reserve("a", SizeArgs)
    \/ Resize("a", SizeArgs)
    \/ ShrinkToFit("a")
    \/ PushBack("a", Vals)
    \/ EmplaceBack("a", Vals)
    \/ PopBack("a")
    \/ IListAssign("a")
    \/ Return

\* The constructions from a size and from a sequence observed.
InitBuild == Boot(MaxAlloc, {"sized", "ilist"})
SpecBuild == InitBuild /\ [][NextOne]_vars

\* The checked accesses observed.
InitAccess == Boot(MaxAlloc, {"at"})
SpecAccess == InitAccess /\ [][NextOne]_vars

\* The calls that change the capacity or release the storage observed.
InitCapacity == Boot(MaxAlloc, {"reserve", "resize", "shrink_to_fit", "dtor"})
SpecCapacity == InitCapacity /\ [][NextOne]_vars

\* The appends observed.
InitAppend == Boot(MaxAlloc, {"push_back", "emplace_back"})
SpecAppend == InitAppend /\ [][NextOne]_vars

\* One object, every operation on it, arguments over the whole range of
\* size_type.
NextWide ==
    \/ Default("a")
    \/ Sized("a", WideArgs)
    \/ FromSequence("a")
    \/ Destroy("a")
    \/ Reserve("a", WideArgs)
    \/ Resize("a", WideArgs)
    \/ ShrinkToFit("a")
    \/ PushBack("a", Vals)
    \/ EmplaceBack("a", Vals)
    \/ PopBack("a")
    \/ Swap("a", "a")
    \/ CopyAssign("a", "a")
    \/ MoveAssign("a", "a")
    \/ IListAssign("a")

SpecWide == Init /\ [][NextWide]_vars

\* The same, the outcome of every resize observed.
NextWideObs == NextWide \/ Return
InitResize == Boot(MaxAlloc, {"resize"})
SpecResize == InitResize /\ [][NextWideObs]_vars

\* One default-constructed object, appended to only.  An append never
\* requests zero slots, so the allocator is std::allocator, whose
\* allocate(0) is not null.
InitPush ==
    /\ vec = [t \in AllVecs |-> IF t = "a" THEN LiveVec(nullptr, 0, 0) ELSE DeadVec]
    /\ alloc = [t \in AllVecs |-> IF t = "a" THEN Stateless ELSE NoAllocator]
    /\ allocator = [zeronull |-> FALSE, stateful |-> FALSE, throws |-> "any"]
    /\ heap = [b \in Blocks |-> FreeBlock]
    /\ limit = MaxAllocPush
    /\ ub = FALSE
    /\ op = NoOp
    /\ watch = {}
    /\ it = NoIter
    /\ visited = << >>

\* Growth depends on the number of appends only: one value, distinct from the
\* zeroes of the slots a reallocation overwrites, is appended.
PushVals == {MaxVal}

NextPush ==
    \/ PushBack("a", PushVals)
    \/ EmplaceBack("a", PushVals)

SpecPush == InitPush /\ [][NextPush]_vars

\* Two objects, every operation that obtains, hands over or releases
\* storage, with an allocator that does not throw; th says whether the
\* copy of an element can.
BootReliable(th) ==
    /\ vec = [t \in AllVecs |-> DeadVec]
    /\ alloc = [t \in AllVecs |-> NoAllocator]
    /\ allocator \in [zeronull : BOOLEAN, stateful : {FALSE}, throws : {th}]
    /\ heap = [b \in Blocks |-> FreeBlock]
    /\ limit = MaxAlloc
    /\ ub = FALSE
    /\ op = NoOp
    /\ watch = {}
    /\ it = NoIter
    /\ visited = << >>

NextRelease ==
    \/ \E t \in Vecs : Default(t)
    \/ \E t \in Vecs : Sized(t, SizeArgs)
    \/ \E t \in Vecs : FromSequence(t)
    \/ \E t, o \in Vecs : CopyCtor(t, o)
    \/ \E t, o \in Vecs : MoveCtor(t, o)
    \/ \E t, o \in Vecs : CopyAssign(t, o)
    \/ \E t, o \in Vecs : MoveAssign(t, o)
    \/ \E t \in Vecs : IListAssign(t)
    \/ \E t \in Vecs : Destroy(t)
    \/ \E t \in Vecs : Reserve(t, SizeArgs)
    \/ \E t \in Vecs : Resize(t, SizeArgs)
    \/ \E t \in Vecs : ShrinkToFit(t)
    \/ \E t \in Vecs : PushBack(t, Vals)
    \/ \E t \in Vecs : PopBack(t)
    \/ \E t, o \in Vecs : Swap(t, o)

\* The element copies can throw.
InitRelease == BootReliable("copy")
SpecRelease == InitRelease /\ [][NextRelease]_vars

\* Nothing throws.
InitNoThrow == BootReliable("none")
SpecNoThrow == InitNoThrow /\ [][NextRelease]_vars

\* One object built from a sequence and traversed in reverse.
IterLists == UNION {[1 .. k -> Vals] : k \in 0 .. MaxIterLen}

InitIter ==
    \E init \in IterLists : \E pol \in Allocators(FALSE) :
        LET S == ctor_ilist(Start([t \in AllVecs |-> DeadVec],
                                  [t \in AllVecs |-> NoAllocator],
                                  [b \in Blocks |-> FreeBlock], MaxIterLen, pol),
                            "a", init,
                            [raw |-> [i \in 1 .. Len(init) |-> 0],
                             zeronull |-> pol.zeronull, fail |-> -1])
        IN  /\ vec = S.vec
            /\ alloc = [t \in AllVecs |-> IF t = "a" THEN S.alloc[t] ELSE NoAllocator]
            /\ allocator = pol
            /\ heap = S.heap
            /\ limit = MaxIterLen
            /\ ub = FALSE
            /\ op = NoOp
            /\ watch = {}
            /\ it = NoIter
            /\ visited = << >>

NextIter ==
    \/ RBegin("a")
    \/ RStep("a")
    \/ PushBack("a", Vals) /\ ~it.on
    \/ PopBack("a") /\ ~it.on

SpecIter == InitIter /\ [][NextIter]_vars

\* ----------------------------------------------------------------- claims
cap(t) == vec[t].capacity
IsPow2(c) == \E k \in 0 .. SizeBits : c = 2 ^ k
SmallestPow2Geq(n) == CHOOSE c \in 1 .. SizeMod : IsPow2(c) /\ c >= n /\
                         \A d \in 1 .. SizeMod : (IsPow2(d) /\ d >= n) => c <= d

\* C1: every live array has 0 <= size <= capacity, whatever constructors
\* and mutating operations ran.
C1_SizeWithinCapacity ==
    \A t \in Vecs : vec[t].live => (0 <= vec[t].size /\ vec[t].size <= vec[t].capacity)

\* C2: slot i of a live array's storage holds a live value if and only if
\* i < size.
C2_LiveIffBelowSize ==
    \A t \in Vecs : vec[t].live =>
        IF vec[t].data = nullptr THEN vec[t].size = 0
        ELSE \A i \in 0 .. (heap[vec[t].data].n - 1) :
                heap[vec[t].data].mem[i + 1].live <=> (i < vec[t].size)

\* C3: no two distinct live arrays hold the same non-null storage block.
C3_NoSharedStorage ==
    \A t, o \in Vecs :
        (t # o /\ vec[t].live /\ vec[o].live /\ vec[t].data # nullptr)
            => vec[t].data # vec[o].data

\* Two live arrays with the same two elements, each in its own block.
C3_Witness ==
    /\ vec["a"].live /\ vec["b"].live
    /\ vec["a"].data # nullptr /\ vec["b"].data # nullptr
    /\ vec["a"].data # vec["b"].data
    /\ vec["a"].size = 2 /\ vec["b"].size = 2
    /\ \A i \in 1 .. 2 :
          heap[vec["a"].data].mem[i].val = heap[vec["b"].data].mem[i].val

\* C4: data() is null if and only if capacity() is 0.
C4_NullIffNoCapacity ==
    \A t \in Vecs : vec[t].live => ((vec[t].data = nullptr) <=> (vec[t].capacity = 0))

\* C5: from a default-constructed array, under push_back and emplace_back
\* alone, the capacity is 0 or a power of two and never decreases.
C5_PowerOfTwoGrowth ==
    [][/\ (cap("a")' = 0 \/ IsPow2(cap("a")'))
       /\ cap("a")' >= cap("a")]_vars

\* Five elements in a block of eight slots.
C5_Witness == vec["a"].size = 5 /\ vec["a"].capacity = 8

\* C6: right after a push_back that grew the capacity, the capacity is the
\* smallest power of two that is >= size.
C6_SmallestPowerOfTwo ==
    [][cap("a")' > cap("a") => cap("a")' = SmallestPow2Geq(vec["a"].size')]_vars

\* C9: a finished reverse traversal of an array of n >= 1 elements has
\* visited the indexes n-1, n-2, ..., 0, each once and in that order.
C9_ReverseVisitsAll ==
    (RDone("a") /\ vec["a"].size >= 1)
        => visited = [i \in 1 .. vec["a"].size |-> vec["a"].size - i]

\* The last step was the move construction of op.t from op.o, or the move
\* assignment of op.o to another object op.t.
IsMove(r) ==
    r.name = "move_ctor" \/ (r.name = "move_assign" /\ r.t # r.o)

\* C7: a move construction or move assignment from another array leaves
\* the source empty (size 0, capacity 0, null storage) and the target with
\* the source's former block, size and capacity; it allocates nothing and
\* constructs no element.
C7_MoveTransfersStorage ==
    [][IsMove(op') =>
          /\ vec'[op'.o] = LiveVec(nullptr, 0, 0)
          /\ vec'[op'.t] = LiveVec(vec[op'.o].data, vec[op'.o].size, vec[op'.o].capacity)
          /\ op'.nalloc = 0 /\ op'.ncons = 0
          /\ vec[op'.o].data # nullptr =>
                heap'[vec[op'.o].data] = heap[vec[op'.o].data]]_vars

\* A move assignment gave its target two elements and emptied its source.
C7_Witness ==
    /\ op.name = "move_assign" /\ op.t # op.o
    /\ vec[op.t].data # nullptr /\ vec[op.t].size = 2
    /\ vec[op.o].data = nullptr

\* The last step was a copy or move assignment that threw.
AssignFailed(r) ==
    r.name \in {"copy_assign", "move_assign"} /\ r.exc # "none"

\* C8: a copy or move assignment that fails while it builds the
\* replacement leaves the target's storage, size, capacity and elements as
\* they were.
C8_AssignFailureAtomic ==
    [][AssignFailed(op') =>
          /\ vec'[op'.t] = vec[op'.t]
          /\ vec[op'.t].data # nullptr =>
                heap'[vec[op'.t].data] = heap[vec[op'.t].data]]_vars

\* A copy assignment to a non-empty target threw in an element copy.
C8_Witness ==
    /\ op.name = "copy_assign" /\ op.exc = "copy_throw"
    /\ vec[op.t].data # nullptr /\ vec[op.t].size >= 1

\* Both arrays have storage, the same size, and equal elements over
\* [0, size).
SameContents(l, r) ==
    /\ vec[l].data # nullptr /\ vec[r].data # nullptr
    /\ vec[l].size = vec[r].size
    /\ \A i \in 1 .. vec[l].size :
          heap[vec[l].data].mem[i].val = heap[vec[r].data].mem[i].val

\* C10: operator== returns true if and only if both arrays have non-null
\* storage, equal sizes and pairwise equal elements (so it is false whenever
\* an operand has null storage), and operator!= returns its negation.
C10_EqualityDefinition ==
    /\ op.name = "eq" => (op.res = "true" <=> SameContents(op.t, op.o))
    /\ op.name = "eq" => (op.res = "false" <=> ~SameContents(op.t, op.o))
    /\ op.name = "ne" => (op.res = "true" <=> ~SameContents(op.t, op.o))
    /\ op.name = "ne" => (op.res = "false" <=> SameContents(op.t, op.o))

\* Two different arrays of two elements compared equal.
C10_Witness ==
    /\ op.name = "eq" /\ op.res = "true" /\ op.t # op.o
    /\ vec[op.t].size = 2

\* The last step was a copy construction of r.t from r.o that returned.
IsCopy(r) == r.name = "copy_ctor" /\ r.exc = "none"

\* C11: a copy construction that returns yields an array with the size and
\* the capacity of the source (not shrunk to the size) and the source's
\* elements over [0, size), held in one newly allocated block that is not the
\* source's; the source's storage, size, capacity and elements are unchanged;
\* and the copy compares equal to a source that has non-null storage.
C11_CopyConstruction ==
    [][IsCopy(op') =>
          /\ vec'[op'.t].live
          /\ vec'[op'.t].size = vec[op'.o].size
          /\ vec'[op'.t].capacity = vec[op'.o].capacity
          /\ \A i \in 1 .. vec[op'.o].size :
                heap'[vec'[op'.t].data].mem[i].val = heap[vec[op'.o].data].mem[i].val
          /\ op'.nalloc = 1
          /\ vec'[op'.t].data # nullptr =>
                /\ heap[vec'[op'.t].data].st = "free"
                /\ heap'[vec'[op'.t].data].n = vec[op'.o].capacity
                /\ vec'[op'.t].data # vec[op'.o].data
          /\ vec'[op'.o] = vec[op'.o]
          /\ vec[op'.o].data # nullptr =>
                /\ heap'[vec[op'.o].data] = heap[vec[op'.o].data]
                /\ operator_eq(heap', vec'[op'.t], vec'[op'.o]) = "true"]_vars

\* A copy was made of an array with one element in a block of two slots.
C11_Witness ==
    /\ IsCopy(op)
    /\ vec[op.t].size = 1 /\ vec[op.t].capacity = 2
    /\ vec[op.t].data # nullptr /\ vec[op.o].data # nullptr

\* The last step was the statement r.t + r.o or r.t - r.o.
IsSum(r) == r.name \in {"plus", "minus"}
Sign(r) == IF r.name = "plus" THEN 1 ELSE -1

\* C12: operator+ and operator- fail with vector_size_mismatch if and only
\* if the sizes of l and r differ; when they return, the result has that
\* size and element i is l[i] + r[i] (l[i] - r[i]); l and r are unchanged in
\* every outcome.
C12_SumAndDifference ==
    [][IsSum(op') =>
          /\ op'.exc # "ub"
          /\ (op'.exc = "vector_size_mismatch") <=> (vec[op'.t].size # vec[op'.o].size)
          /\ (op'.res = "array") <=> (op'.exc = "none")
          /\ op'.exc = "none" =>
                /\ Len(op'.out) = vec[op'.t].size
                /\ \A i \in 1 .. vec[op'.t].size :
                      op'.out[i] = heap[vec[op'.t].data].mem[i].val
                                   + Sign(op') * heap[vec[op'.o].data].mem[i].val
          /\ \A x \in {op'.t, op'.o} :
                /\ vec'[x] = vec[x]
                /\ vec[x].data # nullptr => heap'[vec[x].data] = heap[vec[x].data]]_vars

\* The difference of two different arrays of one element each was returned.
C12_Witness ==
    /\ op.name = "minus" /\ op.t # op.o /\ op.res = "array"
    /\ vec[op.t].size = 1 /\ vec[op.o].size = 1
    /\ op.out = << heap[vec[op.t].data].mem[1].val - heap[vec[op.o].data].mem[1].val >>

\* C13: at(i) throws array_out_of_range if and only if i >= size(); for
\* i < size() it returns the element stored at index i; the array's
\* storage, size, capacity and elements are unchanged in both outcomes.
C13_AtBoundsChecked ==
    [][op'.name = "at" =>
          /\ op'.exc # "ub"
          /\ (op'.exc = "array_out_of_range") <=> (op'.arg[1] >= vec[op'.t].size)
          /\ op'.arg[1] < vec[op'.t].size =>
                /\ op'.exc = "none"
                /\ op'.out = << heap[vec[op'.t].data].mem[op'.arg[1] + 1].val >>
          /\ vec' = vec /\ heap' = heap]_vars

\* at(1) returned the second element, MaxVal, of an array of two.
C13_Witness ==
    /\ op.name = "at" /\ op.exc = "none" /\ op.arg = << 1 >>
    /\ vec[op.t].size = 2 /\ op.out = << MaxVal >>

\* C14: resize(k) with k <= size() sets size() to k and leaves capacity(),
\* the storage block and the values of the elements unchanged; it allocates
\* and releases nothing.
C14_ResizeDownKeepsStorage ==
    [][(op'.name = "resize" /\ op'.arg[1] <= vec[op'.t].size) =>
          /\ op'.exc = "none"
          /\ vec'[op'.t] = [vec[op'.t] EXCEPT !.size = op'.arg[1]]
          /\ heap' = heap
          /\ op'.nalloc = 0 /\ op'.nfree = 0]_vars

\* resize(1) ended on an array whose second slot was constructed, in a
\* block of two slots.
C14_Witness ==
    /\ op.name = "resize" /\ op.arg = << 1 >>
    /\ vec[op.t].size = 1 /\ vec[op.t].capacity = 2
    /\ heap[vec[op.t].data].mem[2].live

\* C15: when an array is destroyed, and when reserve releases the old
\* block, every element constructed in the released block has been
\* destroyed first: no constructed element is lost with its block.
C15_ElementsDestroyed ==
    op.name \in {"dtor", "reserve"} => op.lost = 0

\* C16: the allocator travels with the storage: the block a live array
\* holds was allocated through the allocator the array now has, so that it
\* is released through the identity that allocated it.
C16_AllocatorTravels ==
    \A t \in Vecs :
        (vec[t].live /\ vec[t].data # nullptr) => heap[vec[t].data].by = alloc[t]

\* The last step was a push_back or emplace_back that returned.
IsAppend(r) == r.name \in {"push_back", "emplace_back"} /\ r.exc = "none"

IsBuilt(r) == r.name \in {"sized", "ilist"} /\ r.exc = "none"
Asked(r) == IF r.name = "sized" THEN r.arg[1] ELSE Len(r.arg)

\* C18: Sized(n) yields size() = capacity() = n, FromSequence(v) yields
\* size() = capacity() = len(v) with element i equal to v[i]; each makes one
\* allocation, of exactly that many slots.
C18_SizedAndFromSequence ==
    [][IsBuilt(op') =>
          /\ vec'[op'.t].live
          /\ vec'[op'.t].size = Asked(op') /\ vec'[op'.t].capacity = Asked(op')
          /\ op'.nalloc = 1
          /\ Asked(op') > 0 => vec'[op'.t].data # nullptr
          /\ vec'[op'.t].data # nullptr =>
                /\ heap[vec'[op'.t].data].st = "free"
                /\ heap'[vec'[op'.t].data].n = Asked(op')
          /\ op'.name = "ilist" =>
                \A i \in 1 .. Len(op'.arg) :
                    heap'[vec'[op'.t].data].mem[i].val = op'.arg[i]]_vars

\* An array was built from the sequence 0, MaxVal.
C18_Witness ==
    /\ IsBuilt(op) /\ op.arg = << 0, MaxVal >> /\ op.name = "ilist"
    /\ vec[op.t].size = 2 /\ vec[op.t].capacity = 2

\* The call r moved the array t to a block of n slots: one allocation of a
\* block that was free, the values at [0, size) copied in order, the size
\* kept, and the old block, if there was one, released once.
Moved(r, n) ==
    /\ vec'[r.t].live /\ vec'[r.t].capacity = n /\ vec'[r.t].size = vec[r.t].size
    /\ r.nalloc = 1
    /\ vec'[r.t].data # nullptr =>
          /\ heap[vec'[r.t].data].st = "free"
          /\ heap'[vec'[r.t].data].n = n
    /\ \A i \in 1 .. vec[r.t].size :
          heap'[vec'[r.t].data].mem[i].val = heap[vec[r.t].data].mem[i].val
    /\ IF vec[r.t].data = nullptr THEN r.nfree = 0
       ELSE r.nfree = 1 /\ heap'[vec[r.t].data].st = "free"

\* The call r changed nothing and called the allocator for nothing.
Untouched(r) ==
    /\ r.exc = "none" /\ r.nalloc = 0 /\ r.nfree = 0
    /\ vec' = vec /\ heap' = heap

IsGrowingResize(r) ==
    /\ r.name = "resize" /\ r.exc = "none"
    /\ r.arg[1] > vec[r.t].size

\* The capacity the array t has, the values at [0, old size) are where and
\* what they were, and the size is n.
GrownTo(t, n, c) ==
    /\ vec'[t].live /\ vec'[t].size = n /\ vec'[t].capacity = c
    /\ \A i \in 1 .. vec[t].size :
          heap'[vec'[t].data].mem[i].val = heap[vec[t].data].mem[i].val

\* C21: a resize(n) with n > size that returns ends with size = n, with the
\* old capacity when the smallest power of two >= n does not exceed it and
\* with that power of two otherwise, and with the values at [0, old size)
\* unchanged.
C21_ResizeGrows ==
    [][IsGrowingResize(op') =>
          GrownTo(op'.t, op'.arg[1],
                  IF SmallestPow2Geq(op'.arg[1]) <= vec[op'.t].capacity
                  THEN vec[op'.t].capacity
                  ELSE SmallestPow2Geq(op'.arg[1]))]_vars

\* The same for the sizes whose power of two is a value of size_type:
\* n <= 2^(SizeBits - 1).
C21_WithinRange ==
    [][(IsGrowingResize(op') /\ op'.arg[1] <= SizeMod \div 2) =>
          GrownTo(op'.t, op'.arg[1],
                  IF SmallestPow2Geq(op'.arg[1]) <= vec[op'.t].capacity
                  THEN vec[op'.t].capacity
                  ELSE SmallestPow2Geq(op'.arg[1]))]_vars

\* resize(n) with n > 2^(SizeBits - 1) returned: the size is n, and the
\* capacity is below it.
C21_Overflow ==
    /\ op.name = "resize" /\ op.exc = "none"
    /\ op.arg[1] > SizeMod \div 2
    /\ vec[op.t].size = op.arg[1] /\ vec[op.t].capacity < op.arg[1]

\* Every block in use is the storage of a live array whose capacity is the
\* slot count the block was allocated with, so that the release of the
\* array's storage passes that count; no block has lost its array.
BlocksOwned ==
    /\ \A t \in AllVecs : (vec[t].live /\ vec[t].data # nullptr) =>
          /\ heap[vec[t].data].st = "used"
          /\ heap[vec[t].data].n = vec[t].capacity
          /\ \A o \in AllVecs \ {t} : vec[o].live => vec[o].data # vec[t].data
    /\ \A b \in Blocks : heap[b].st # "leaked"

\* C22: with an allocator that does not fail, every block obtained from
\* allocate(n) is released exactly once and with the count n: no release
\* is of a block not in use or with another count (~ub), no block is left
\* without an array to release it, and no block is in use once every array
\* has been destroyed.
C22_BlocksReleasedOnce ==
    /\ ~ub
    /\ BlocksOwned
    /\ (\A t \in AllVecs : ~vec[t].live) => \A b \in Blocks : heap[b].st = "free"

\* A block was allocated and nothing can release it, and every array has
\* been destroyed.
C22_Leak ==
    /\ \A t \in AllVecs : ~vec[t].live
    /\ \E b \in Blocks : heap[b].st = "leaked"

\* Nothing can throw, and both arrays own a block of two slots of their own.
C22_NoThrowWitness ==
    /\ allocator.throws = "none"
    /\ vec["a"].live /\ vec["b"].live
    /\ vec["a"].capacity = 2 /\ vec["b"].capacity = 2
    /\ vec["a"].data # vec["b"].data
    /\ \A b \in Blocks : heap[b].st # "leaked"

====
